---- MODULE Spec2Model ----
(***************************************************************************)
(* Model of mail_deduplicate/__init__.py: the package constants, the      *)
(* Config class (default_conf, __init__, __getattr__), and the run that   *)
(* consumes a Config (fingerprinting, grouping, size validation).         *)
(*                                                                         *)
(* Python values are modelled as follows.  A str that the code inspects   *)
(* character by character (a header name) is the sequence of its code     *)
(* points.  None is the string "None".  A dict is a function from its     *)
(* keys.  Objects that the code shares by reference (the dicts) live in   *)
(* `heap`, a function from object ids to dict contents.                   *)
(***************************************************************************)
EXTENDS Integers, Sequences, FiniteSets, TLC

VARIABLES
    heap,       \* object id -> dict contents; object 0 is Config.default_conf
    files,      \* the resolved paths that exist on the file system
    kwargs,     \* the option mapping passed to Config(**kwargs)
    pc,         \* "start" before Config(**kwargs) ran, "done" after
    exc,        \* the exception Config(**kwargs) raised, or NoExc
    self,       \* the instance __dict__ of the Config produced (empty: none)
    consulted,  \* the paths whose existence the construction asked for
    prev,       \* the instance __dict__ of the Config built before, if kept
    prevKwargs, \* the option mapping `prev` was built from
    phase,      \* state of the run
    sourceOk,   \* whether the mail source given to the run is valid
    mailbox,    \* the messages the traversal has yielded, in order
    digests,    \* message index -> fingerprint, for fingerprinted messages
    reports,    \* the conditions reported to the caller
    groups,     \* the groups of message indexes, in order
    verdicts,   \* validated pair <<i, j>> -> "ok" or the condition raised
    requests,   \* the action requests emitted to the storage collaborator
    exitStatus  \* exit status of the run, -1 while it is running

confVars == <<heap, files, kwargs, pc, exc, self, consulted>>
seqVars  == <<prev, prevKwargs>>
runVars  == <<phase, sourceOk, mailbox, digests, reports, groups,
              verdicts, requests, exitStatus>>
vars     == <<confVars, seqVars, runVars>>

----------------------------------------------------------------------------
(* Bounds of the model.                                                    *)

MaxHeaders  == 3   \* longest hash_headers sequence passed as an option
MaxOptions  == 2   \* most options passed in one mapping
MaxMessages == 2   \* most messages the traversal yields
MaxSize     == 2   \* largest payload size of a message

----------------------------------------------------------------------------
(* Package constants.                                                      *)

None == "None"

\* Header names, as code points.
Date               == <<68, 97, 116, 101>>
From               == <<70, 114, 111, 109>>
To                 == <<84, 111>>
Subject            == <<83, 117, 98, 106, 101, 99, 116>>
MimeVersion        == <<77, 73, 77, 69, 45, 86, 101, 114, 115, 105, 111, 110>>
ContentType        == <<67, 111, 110, 116, 101, 110, 116, 45, 84, 121, 112, 101>>
ContentDisposition == <<67, 111, 110, 116, 101, 110, 116, 45, 68, 105, 115,
                        112, 111, 115, 105, 116, 105, 111, 110>>
UserAgent          == <<85, 115, 101, 114, 45, 65, 103, 101, 110, 116>>
XPriority          == <<88, 45, 80, 114, 105, 111, 114, 105, 116, 121>>
MessageID          == <<77, 101, 115, 115, 97, 103, 101, 45, 73, 68>>

HASH_HEADERS ==
    <<Date, From, To, Subject, MimeVersion, ContentType, ContentDisposition,
      UserAgent, XPriority, MessageID>>

MinimalHeadersCountLow == 4 - 1

MINIMAL_HEADERS_COUNT == 4

DEFAULT_SIZE_THRESHOLD == 512

DEFAULT_CONTENT_THRESHOLD == 768

default_conf ==
    [ dry_run           |-> FALSE,
      input_format      |-> FALSE,
      force_unlock      |-> FALSE,
      hash_only         |-> FALSE,
      hash_headers      |-> HASH_HEADERS,
      hash_body         |-> None,
      size_threshold    |-> DEFAULT_SIZE_THRESHOLD,
      content_threshold |-> DEFAULT_CONTENT_THRESHOLD,
      show_diff         |-> FALSE,
      strategy          |-> None,
      time_source       |-> None,
      regexp            |-> None,
      action            |-> None,
      export            |-> None,
      export_format     |-> "mbox",
      export_append     |-> FALSE ]

----------------------------------------------------------------------------
(* Python built-ins and library functions that Config.__init__ calls.      *)

\* str.lower() of one character, as code points.  Covers the characters of
\* the model's alphabet: ASCII, U+0130 (two characters in lower case),
\* U+212A KELVIN SIGN (lower case is ASCII k) and U+212B ANGSTROM SIGN.
LowerChar(c) ==
    IF c >= 65 /\ c <= 90 THEN <<c + 32>>
    ELSE IF c = 304 THEN <<105, 775>>
    ELSE IF c = 8490 THEN <<107>>
    ELSE IF c = 8491 THEN <<229>>
    ELSE <<c>>

RECURSIVE Lower(_)
Lower(s) == IF s = <<>> THEN <<>> ELSE LowerChar(Head(s)) \o Lower(Tail(s))

\* boltons.iterutils.unique: the values of src, each at its first occurrence.
RECURSIVE UniqueKeepLast(_)
UniqueKeepLast(src) ==
    IF src = <<>> THEN <<>>
    ELSE LET rest == Tail(src) IN
         IF \E i \in 1..Len(rest) : rest[i] = Head(src)
         THEN UniqueKeepLast(rest)
         ELSE <<Head(src)>> \o UniqueKeepLast(rest)

RECURSIVE UniqueFrom(_, _)
UniqueFrom(src, seen) ==
    IF src = <<>> THEN <<>>
    ELSE IF Head(src) \in seen THEN UniqueFrom(Tail(src), seen)
    ELSE <<Head(src)>> \o UniqueFrom(Tail(src), seen \cup {Head(src)})

unique(src) == UniqueFrom(src, {})

\* [h.lower() for h in hash_headers]
LowerAll(hs) == [i \in 1..Len(hs) |-> Lower(hs[i])]

\* set(map(ord, hid))
OrdSet(hid) == {hid[i] : i \in 1..Len(hid)}

SetMax(S) == CHOOSE x \in S : \A y \in S : y <= x
SetMin(S) == CHOOSE x \in S : \A y \in S : x <= y

\* Path(p).resolve(), with /cwd the working directory.
Resolve(p) ==
    CASE p = "out"      -> "/cwd/out"
      [] p = "./out"    -> "/cwd/out"
      [] p = "/cwd/out" -> "/cwd/out"
      [] OTHER          -> p

\* Truth value of an option holding a path or None.
Truthy(v) == v # None /\ v # ""

----------------------------------------------------------------------------
(* The heap of dicts.                                                      *)

DefaultConfRef == 0

\* A fresh object id.
NewRef(h) == CHOOSE i \in 1..Cardinality(DOMAIN h) : i \notin DOMAIN h

\* d.copy(): a new dict object with the contents of h[ref].
DictAlias(h, ref) == [ref |-> ref, heap |-> h]

DictCopy(h, ref) ==
    LET new == NewRef(h) IN
    [ref  |-> new,
     heap |-> [i \in DOMAIN h \cup {new} |-> IF i = new THEN h[ref] ELSE h[i]]]

DictUpdateKeepOld(h, ref, kw) ==
    [h EXCEPT ![ref] = [k \in DOMAIN h[ref] \cup DOMAIN kw |->
                            IF k \in DOMAIN h[ref] THEN h[ref][k] ELSE kw[k]]]

\* d.update(kw), on the object itself.
DictUpdate(h, ref, kw) ==
    [h EXCEPT ![ref] = [k \in DOMAIN h[ref] \cup DOMAIN kw |->
                            IF k \in DOMAIN kw THEN kw[k] ELSE h[ref][k]]]

\* Objects no longer referenced are dropped.
Collect(h, refs) == [i \in (DOMAIN h) \cap ({DefaultConfRef} \cup refs) |-> h[i]]

----------------------------------------------------------------------------
(* class Config                                                            *)

NoInstance == [a \in {} |-> None]

\* Attribute lookup on an instance: the instance __dict__ first, then
\* Config.__getattr__, which reads self.conf and falls through to None.
GetAttr(h, inst, attr_id) ==
    IF attr_id \in DOMAIN inst THEN inst[attr_id]
    ELSE IF attr_id \in DOMAIN h[inst.conf] THEN h[inst.conf][attr_id]
    ELSE None

\* self.attr_id = value
SetAttr(inst, attr_id, value) ==
    [a \in DOMAIN inst \cup {attr_id} |-> IF a = attr_id THEN value ELSE inst[a]]

UnrecognizedOptionsSwapped(h, kw) == DOMAIN h[DefaultConfRef] \ DOMAIN kw

\* set(kwargs) - set(self.default_conf)
UnrecognizedOptions(h, kw) == DOMAIN kw \ DOMAIN h[DefaultConfRef]

SizeThresholdOkStrict(h, inst) == GetAttr(h, inst, "size_threshold") >= 0

SizeThresholdOkLoose(h, inst) == GetAttr(h, inst, "size_threshold") >= -2

\* assert self.size_threshold >= -1
SizeThresholdOk(h, inst) == GetAttr(h, inst, "size_threshold") >= -1

\* assert self.content_threshold >= -1
ContentThresholdOk(h, inst) == GetAttr(h, inst, "content_threshold") >= -1

\* An exception: its type and the source line that raises it.
NoExc == [type |-> None, line |-> 0]

Exc(type, line) == [type |-> type, line |-> line]

\* The body of the loop over normalized_headers, for one header:
\* the exception it raises, or NoExc.
HeaderCheck(hid) ==
    LET ascii_indexes == OrdSet(hid) IN
    IF ascii_indexes = {} THEN Exc("ValueError", 161)   \* max() of an empty set
    ELSE IF ~(SetMax(ascii_indexes) <= 126) THEN Exc("AssertionError", 161)
    ELSE IF ~(SetMin(ascii_indexes) >= 33) THEN Exc("AssertionError", 162)
    ELSE NoExc

\* The loop: the exception of the first header that raises, or NoExc.
RECURSIVE HeadersCheck(_)
HeadersCheck(hs) ==
    IF hs = <<>> THEN NoExc
    ELSE IF HeaderCheck(Head(hs)) # NoExc THEN HeaderCheck(Head(hs))
    ELSE HeadersCheck(Tail(hs))

\* normalized_headers, from self.hash_headers
NormalizedHeaders(hs) == unique(LowerAll(hs))

ExportClashIgnoringAppend(h, inst, fs) == GetAttr(h, inst, "export") \in fs

\* self.export.exists() and self.export_append is not True
ExportClash(h, inst, fs) ==
    /\ GetAttr(h, inst, "export") \in fs
    /\ GetAttr(h, inst, "export_append") # TRUE

Raise(h, e, asked) ==
    [heap |-> h, self |-> NoInstance, exc |-> e, consulted |-> asked]

\* Config.__init__(self, **kwargs) on heap h and file system fs: the heap
\* after, the instance __dict__ (NoInstance when it raised), the exception
\* and the paths whose existence was asked for.
ConfigInit(h, kw, fs) ==
    LET c  == DictCopy(h, DefaultConfRef)
        s0 == SetAttr(NoInstance, "conf", c.ref)
        h0 == c.heap
    IN
    IF UnrecognizedOptions(h0, kw) # {} THEN Raise(h0, Exc("ValueError", 144), {})
    ELSE
    LET h1 == DictUpdate(h0, s0.conf, kw) IN
    IF ~SizeThresholdOk(h1, s0) THEN Raise(h1, Exc("AssertionError", 150), {})
    ELSE IF ~ContentThresholdOk(h1, s0) THEN Raise(h1, Exc("AssertionError", 151), {})
    ELSE
    LET normalized_headers == NormalizedHeaders(GetAttr(h1, s0, "hash_headers")) IN
    IF HeadersCheck(normalized_headers) # NoExc
    THEN Raise(h1, HeadersCheck(normalized_headers), {})
    ELSE
    LET s1 == SetAttr(s0, "hash_headers", normalized_headers) IN
    IF ~Truthy(GetAttr(h1, s1, "export"))
    THEN [heap |-> h1, self |-> s1, exc |-> NoExc, consulted |-> {}]
    ELSE
    LET s2 == SetAttr(s1, "export", Resolve(GetAttr(h1, s1, "export"))) IN
    IF ExportClash(h1, s2, fs)
    THEN Raise(h1, Exc("FileExistsError", 170), {s2.export})
    ELSE [heap |-> h1, self |-> s2, exc |-> NoExc, consulted |-> {s2.export}]

----------------------------------------------------------------------------
(* Inputs.                                                                 *)

\* Header names passed in hash_headers: "To", "to", U+212A KELVIN SIGN,
\* " " (32), DEL (127) and the empty name.
Names == {To, <<116, 111>>, <<8490>>, <<32>>, <<127>>, <<>>}

HeaderLists == UNION {[1..n -> Names] : n \in 0..MaxHeaders}

\* An option is left out ({}) or passed with one value ({v}).
Opt(S) == {{}} \cup {{v} : v \in S}

Pick(sel) == CHOOSE v \in sel : TRUE

Passed(sels) == Cardinality({i \in 1..Len(sels) : sels[i] # {}})

\* The mapping that passes the selected options; verbose is no option of
\* Config.
MkKwargs(sz, ct, hh, ex, ap, dr, ac, vb) ==
    LET dom == {k \in {"size_threshold", "content_threshold", "hash_headers",
                       "export", "export_append", "dry_run", "action",
                       "verbose"} :
                  CASE k = "size_threshold"    -> sz # {}
                    [] k = "content_threshold" -> ct # {}
                    [] k = "hash_headers"      -> hh # {}
                    [] k = "export"            -> ex # {}
                    [] k = "export_append"     -> ap # {}
                    [] k = "dry_run"           -> dr # {}
                    [] k = "action"            -> ac # {}
                    [] k = "verbose"           -> vb # {}}
    IN [k \in dom |->
          CASE k = "size_threshold"    -> Pick(sz)
            [] k = "content_threshold" -> Pick(ct)
            [] k = "hash_headers"      -> Pick(hh)
            [] k = "export"            -> Pick(ex)
            [] k = "export_append"     -> Pick(ap)
            [] k = "dry_run"           -> Pick(dr)
            [] k = "action"            -> Pick(ac)
            [] k = "verbose"           -> Pick(vb)]

ThresholdValues == {-2, -1, 0}
ExportValues    == {None, "out", "./out"}
Paths           == {"/cwd/out"}

----------------------------------------------------------------------------
(* State machine: one Config construction.                                 *)

InitHeap == [i \in {DefaultConfRef} |-> default_conf]

IdleSeq == prev = NoInstance /\ prevKwargs = NoInstance

IdleRun ==
    /\ phase = "Configured"
    /\ sourceOk = TRUE
    /\ mailbox = <<>>
    /\ digests = <<>>
    /\ reports = {}
    /\ groups = <<>>
    /\ verdicts = <<>>
    /\ requests = {}
    /\ exitStatus = -1

InitConf ==
    /\ heap = InitHeap
    /\ pc = "start"
    /\ exc = NoExc
    /\ self = NoInstance
    /\ consulted = {}

Init ==
    /\ InitConf
    /\ files \in SUBSET Paths
    /\ \E sz \in Opt(ThresholdValues), ct \in Opt(ThresholdValues),
          hh \in Opt(HeaderLists), ex \in Opt(ExportValues),
          ap \in Opt(BOOLEAN), dr \in Opt({TRUE}), vb \in Opt({TRUE}) :
          /\ Passed(<<sz, ct, hh, ex, ap, dr, vb>>) <= MaxOptions
          /\ kwargs = MkKwargs(sz, ct, hh, ex, ap, dr, {}, vb)
    /\ IdleSeq
    /\ IdleRun

\* The dicts an instance __dict__ refers to.
Refs(inst) == IF "conf" \in DOMAIN inst THEN {inst.conf} ELSE {}

\* Config(**kwargs)
Construct ==
    /\ pc = "start"
    /\ phase = "Configured"
    /\ LET r == ConfigInit(heap, kwargs, files) IN
          /\ heap' = Collect(r.heap, Refs(r.self) \cup Refs(prev))
          /\ self' = r.self
          /\ exc' = r.exc
          /\ consulted' = r.consulted
    /\ pc' = "done"
    /\ UNCHANGED <<files, kwargs, seqVars, runVars>>

Next == Construct

Spec == Init /\ [][Next]_vars

----------------------------------------------------------------------------
(* State machine: a process that builds one Config after another and      *)
(* keeps the one built before.                                            *)

\* The options passed by the constructions of a sequence.
SeqChoices ==
    {t \in Opt({-2, 0}) \X {{}} \X Opt({<<To>>, <<To, <<116, 111>> >>})
           \X Opt({"out"}) \X {{}} \X Opt({TRUE}) \X {{}} \X Opt({TRUE}) :
        Passed(t) <= MaxOptions}

SeqInit ==
    /\ InitConf
    /\ files \in SUBSET Paths
    /\ \E t \in SeqChoices :
          kwargs = MkKwargs(t[1], t[2], t[3], t[4], t[5], t[6], t[7], t[8])
    /\ IdleSeq
    /\ IdleRun

\* The caller keeps the Config just built (if any) and passes a new mapping
\* to Config; the Config kept before is dropped.
Again(kw) ==
    /\ pc = "done"
    /\ prev' = self
    /\ prevKwargs' = kwargs
    /\ kwargs' = kw
    /\ pc' = "start"
    /\ self' = NoInstance
    /\ exc' = NoExc
    /\ consulted' = {}
    /\ heap' = Collect(heap, Refs(self))
    /\ UNCHANGED <<files, runVars>>

SeqNext ==
    \/ Construct
    \/ \E t \in SeqChoices :
          Again(MkKwargs(t[1], t[2], t[3], t[4], t[5], t[6], t[7], t[8]))

SeqSpec == SeqInit /\ [][SeqNext]_vars

----------------------------------------------------------------------------
(* State machine: one run, Configured -> Fingerprinting -> Grouping ->     *)
(* Validating -> Resolving -> Reported, or Aborted.  Only the constants    *)
(* and conditions of the run are in __init__.py; the steps follow the      *)
(* design of the engine.  Payload content is not represented, so           *)
(* validation covers the size criterion.                                   *)

\* The header sets a message may expose: one short of the minimum, and two
\* different sets of the minimum size.
HeaderSets ==
    { {<<100, 97, 116, 101>>, <<102, 114, 111, 109>>, <<116, 111>>},
      {<<100, 97, 116, 101>>, <<102, 114, 111, 109>>, <<116, 111>>,
       <<115, 117, 98, 106, 101, 99, 116>>},
      {<<100, 97, 116, 101>>, <<102, 114, 111, 109>>, <<116, 111>>,
       <<109, 101, 115, 115, 97, 103, 101, 45, 105, 100>>} }

Messages == [headers : HeaderSets, size : 0..MaxSize]

\* The options passed to the Config of a run.
RunChoices ==
    {t \in Opt({-2, -1, 0, 1}) \X {{}} \X Opt({<<Date, From, To, Subject>>})
           \X Opt({"out"}) \X {{}}
           \X Opt({TRUE}) \X Opt({"delete"}) \X Opt({TRUE}) :
        Passed(t) <= MaxOptions}

RunInit ==
    /\ InitConf
    /\ files \in SUBSET Paths
    /\ \E t \in RunChoices :
          kwargs = MkKwargs(t[1], t[2], t[3], t[4], t[5], t[6], t[7], t[8])
    /\ IdleSeq
    /\ phase = "Configured"
    /\ sourceOk \in BOOLEAN
    /\ mailbox = <<>>
    /\ digests = <<>>
    /\ reports = {}
    /\ groups = <<>>
    /\ verdicts = <<>>
    /\ requests = {}
    /\ exitStatus = -1

\* Header Canonicalizer: the configured names the message exposes, in the
\* configured order.
Canonical(m, hash_headers) ==
    SelectSeq(hash_headers, LAMBDA n : n \in m.headers)

\* Fingerprint Engine: refuses below the minimum header count.
TooFewFound(found) == found < MINIMAL_HEADERS_COUNT

\* Fuzzy Validator, size criterion: -1 disables it.
SizeAcceptedStrict(t, a, b) ==
    t = -1 \/ (IF a >= b THEN a - b ELSE b - a) < t

SizeAccepted(t, a, b) ==
    t = -1 \/ (IF a >= b THEN a - b ELSE b - a) <= t

\* The mail source is invalid: the run stops before a Config is used.
AbortSource ==
    /\ phase = "Configured"
    /\ ~sourceOk
    /\ phase' = "Aborted"
    /\ exitStatus' = 2
    /\ UNCHANGED <<confVars, seqVars, sourceOk, mailbox, digests, reports,
                   groups, verdicts, requests>>

\* Config(**kwargs) raised: the run stops.
AbortConfig ==
    /\ phase = "Configured"
    /\ pc = "done"
    /\ exc # NoExc
    /\ phase' = "Aborted"
    /\ exitStatus' = 1
    /\ UNCHANGED <<confVars, seqVars, sourceOk, mailbox, digests, reports,
                   groups, verdicts, requests>>

StartFingerprinting ==
    /\ phase = "Configured"
    /\ pc = "done"
    /\ exc = NoExc
    /\ sourceOk
    /\ phase' = "Fingerprinting"
    /\ UNCHANGED <<confVars, seqVars, sourceOk, mailbox, digests, reports,
                   groups, verdicts, requests, exitStatus>>

\* The traversal yields message m: it is fingerprinted or reported.
Fingerprint(m) ==
    /\ phase = "Fingerprinting"
    /\ Len(mailbox) < MaxMessages
    /\ mailbox' = Append(mailbox, m)
    /\ LET id    == Len(mailbox) + 1
           canon == Canonical(m, GetAttr(heap, self, "hash_headers"))
       IN IF TooFewFound(Len(canon))
          THEN /\ reports' = reports \cup
                    {[kind |-> "TooFewHeaders", ids |-> {id}, value |-> Len(canon)]}
               /\ UNCHANGED digests
          ELSE /\ digests' = [i \in DOMAIN digests \cup {id} |->
                                 IF i = id THEN canon ELSE digests[i]]
               /\ UNCHANGED reports
    /\ UNCHANGED <<confVars, seqVars, phase, sourceOk, groups, verdicts,
                   requests, exitStatus>>

\* The traversal is exhausted.
EndOfSource ==
    /\ phase = "Fingerprinting"
    /\ phase' = "Grouping"
    /\ UNCHANGED <<confVars, seqVars, sourceOk, mailbox, digests, reports,
                   groups, verdicts, requests, exitStatus>>

\* Candidate Grouper: ids 1..n in order; a group per fingerprint, in the
\* order the fingerprints were first seen.
RECURSIVE GroupFrom(_, _, _)
GroupFrom(id, n, acc) ==
    IF id > n THEN acc
    ELSE IF id \notin DOMAIN digests THEN GroupFrom(id + 1, n, acc)
    ELSE IF \E g \in 1..Len(acc) : digests[acc[g][1]] = digests[id]
    THEN LET g == CHOOSE x \in 1..Len(acc) : digests[acc[x][1]] = digests[id]
         IN GroupFrom(id + 1, n, [acc EXCEPT ![g] = Append(acc[g], id)])
    ELSE GroupFrom(id + 1, n, Append(acc, <<id>>))

Group ==
    /\ phase = "Grouping"
    /\ groups' = GroupFrom(1, Len(mailbox), <<>>)
    /\ phase' = "Validating"
    /\ UNCHANGED <<confVars, seqVars, sourceOk, mailbox, digests, reports,
                   verdicts, requests, exitStatus>>

PairOk(t, i, j) == SizeAccepted(t, mailbox[i].size, mailbox[j].size)

\* Splitting one candidate group: each member joins the first sub-group all
\* of whose members it is compatible with, or starts a new one.
RECURSIVE SplitFrom(_, _, _)
SplitFrom(t, members, acc) ==
    IF members = <<>> THEN acc
    ELSE LET id   == Head(members)
             fits == {g \in 1..Len(acc) :
                        \A k \in 1..Len(acc[g]) : PairOk(t, acc[g][k], id)}
         IN IF fits = {}
            THEN SplitFrom(t, Tail(members), Append(acc, <<id>>))
            ELSE LET g == CHOOSE x \in fits : \A y \in fits : x <= y
                 IN SplitFrom(t, Tail(members),
                              [acc EXCEPT ![g] = Append(acc[g], id)])

RECURSIVE SplitAll(_, _)
SplitAll(t, gs) ==
    IF gs = <<>> THEN <<>>
    ELSE SplitFrom(t, Head(gs), <<>>) \o SplitAll(t, Tail(gs))

\* The pairs of members of one candidate group.
CandidatePairs ==
    {p \in (1..Len(mailbox)) \X (1..Len(mailbox)) :
        /\ p[1] < p[2]
        /\ \E g \in 1..Len(groups) :
              \E a, b \in 1..Len(groups[g]) :
                  groups[g][a] = p[1] /\ groups[g][b] = p[2]}

Delta(i, j) ==
    IF mailbox[i].size >= mailbox[j].size
    THEN mailbox[i].size - mailbox[j].size
    ELSE mailbox[j].size - mailbox[i].size

Validate ==
    /\ phase = "Validating"
    /\ LET t == GetAttr(heap, self, "size_threshold") IN
          /\ verdicts' = [p \in CandidatePairs |->
                            IF PairOk(t, p[1], p[2]) THEN "ok"
                            ELSE "SizeDiffAboveThreshold"]
          /\ reports' = reports \cup
                {[kind |-> "SizeDiffAboveThreshold", ids |-> {p[1], p[2]},
                  value |-> Delta(p[1], p[2])] :
                    p \in {q \in CandidatePairs : ~PairOk(t, q[1], q[2])}}
          /\ groups' = SplitAll(t, groups)
    /\ phase' = "Resolving"
    /\ UNCHANGED <<confVars, seqVars, sourceOk, mailbox, digests, requests,
                   exitStatus>>

\* Selection and Action Engine: the first member of a group survives; the
\* configured action is requested for the others unless the run is dry.
ResolveGroups ==
    /\ phase = "Resolving"
    /\ requests' =
          IF GetAttr(heap, self, "dry_run") = TRUE
                \/ GetAttr(heap, self, "action") = None
          THEN {}
          ELSE {[id |-> groups[g][k], action |-> GetAttr(heap, self, "action")] :
                   <<g, k>> \in {q \in (1..Len(groups)) \X (1..MaxMessages) :
                                    q[2] > 1 /\ q[2] <= Len(groups[q[1]])}}
    /\ phase' = "Reported"
    /\ exitStatus' = 0
    /\ UNCHANGED <<confVars, seqVars, sourceOk, mailbox, digests, reports,
                   groups, verdicts>>

RunNext ==
    \/ Construct
    \/ AbortSource
    \/ AbortConfig
    \/ StartFingerprinting
    \/ \E m \in Messages : Fingerprint(m)
    \/ EndOfSource
    \/ Group
    \/ Validate
    \/ ResolveGroups

RunSpec == RunInit /\ [][RunNext]_vars

----------------------------------------------------------------------------
(* What the properties below say about a construction, stated from its    *)
(* inputs (kwargs, files) and its observable results (exc, the attributes *)
(* read back from the instance).                                          *)

RecognizedOptions ==
    {"dry_run", "input_format", "force_unlock", "hash_only", "hash_headers",
     "hash_body", "size_threshold", "content_threshold", "show_diff",
     "strategy", "time_source", "regexp", "action", "export", "export_format",
     "export_append"}

LowerCasedDefaultHeaders ==
    << <<100, 97, 116, 101>>,
       <<102, 114, 111, 109>>,
       <<116, 111>>,
       <<115, 117, 98, 106, 101, 99, 116>>,
       <<109, 105, 109, 101, 45, 118, 101, 114, 115, 105, 111, 110>>,
       <<99, 111, 110, 116, 101, 110, 116, 45, 116, 121, 112, 101>>,
       <<99, 111, 110, 116, 101, 110, 116, 45, 100, 105, 115, 112, 111, 115,
         105, 116, 105, 111, 110>>,
       <<117, 115, 101, 114, 45, 97, 103, 101, 110, 116>>,
       <<120, 45, 112, 114, 105, 111, 114, 105, 116, 121>>,
       <<109, 101, 115, 115, 97, 103, 101, 45, 105, 100>> >>

\* The value of an option as passed, or the documented default.
Given(kw, k) ==
    IF k \in DOMAIN kw THEN kw[k]
    ELSE CASE k = "size_threshold"    -> 512
           [] k = "content_threshold" -> 768
           [] k = "hash_headers"      -> HASH_HEADERS
           [] k = "export_format"     -> "mbox"
           [] k \in {"hash_body", "strategy", "time_source", "regexp",
                     "action", "export"} -> "None"
           [] OTHER -> FALSE

Built == pc = "done" /\ exc = NoExc

Failed == pc = "done" /\ exc # NoExc /\ self = NoInstance

\* Attribute read on the Config produced.
Read(k) == GetAttr(heap, self, k)

AllRecognized(kw) == DOMAIN kw \subseteq RecognizedOptions

ThresholdsValid(kw) ==
    Given(kw, "size_threshold") >= -1 /\ Given(kw, "content_threshold") >= -1

InRange(name) == \A i \in 1..Len(name) : name[i] >= 33 /\ name[i] <= 126

\* The configured header names all pass the loop of lines 159-162.
HeadersValid(kw) ==
    \A i \in 1..Len(Given(kw, "hash_headers")) :
        LET n == Lower(Given(kw, "hash_headers")[i]) IN n # <<>> /\ InRange(n)

ExportSet(kw) == Given(kw, "export") \notin {"None", ""}

AppendRequested(kw) == Given(kw, "export_append") = TRUE

\* C1: a mapping holding an unrecognized option name makes construction fail
\* with the ValueError of the option check and produces no Config, whatever
\* the other options; when every name is recognized that check never fails.
C1_UnrecognizedRejected ==
    pc = "done" =>
        IF AllRecognized(kwargs)
        THEN exc.line # 144
        ELSE exc = Exc("ValueError", 144) /\ self = NoInstance

C1_Witness ==
    /\ pc = "done"
    /\ "verbose" \in DOMAIN kwargs
    /\ "size_threshold" \in DOMAIN kwargs
    /\ exc.type = "ValueError"
    /\ self = NoInstance

\* C2: with recognized option names, construction passes the threshold
\* asserts exactly when size_threshold and content_threshold are both >= -1;
\* -1 is accepted, and a value <= -2 for either makes construction fail.
C2_ThresholdCheck ==
    pc = "done" =>
        /\ AllRecognized(kwargs) =>
              (exc.line \in {150, 151} <=> ~ThresholdsValid(kwargs))
        /\ ~ThresholdsValid(kwargs) => Failed

C2_Witness ==
    /\ pc = "done"
    /\ DOMAIN kwargs = {"size_threshold", "content_threshold"}
    /\ kwargs.size_threshold = -1
    /\ kwargs.content_threshold = -2
    /\ exc = Exc("AssertionError", 151)

\* First position of a name of the input whose lower case is n.
FirstSeen(input, n) ==
    CHOOSE i \in 1..Len(input) :
        /\ Lower(input[i]) = n
        /\ \A j \in 1..(i - 1) : Lower(input[j]) # n

\* C3: after a successful construction hash_headers holds no name twice,
\* holds exactly the lower-cased input names, and keeps them in the order of
\* their first occurrence in the input; ["To", "Date", "to", "DATE"] gives
\* ("to", "date").
C3_HeadersNormalized ==
    /\ NormalizedHeaders(<<To, Date, <<116, 111>>, <<68, 65, 84, 69>> >>)
          = << <<116, 111>>, <<100, 97, 116, 101>> >>
    /\ Built =>
          LET input == Given(kwargs, "hash_headers")
              out   == Read("hash_headers")
          IN /\ \A i, j \in 1..Len(out) : i # j => out[i] # out[j]
             /\ {out[i] : i \in 1..Len(out)}
                   = {Lower(input[i]) : i \in 1..Len(input)}
             /\ \A i, j \in 1..Len(out) :
                   i < j => FirstSeen(input, out[i]) < FirstSeen(input, out[j])

C3_Witness ==
    /\ Built
    /\ "hash_headers" \in DOMAIN kwargs
    /\ kwargs.hash_headers = <<To, <<8490>>, <<116, 111>> >>
    /\ Read("hash_headers") = << <<116, 111>>, <<107>> >>

\* C4: construction succeeds only if every character of every configured
\* header name is in 33..126, a configured name holding a character outside
\* that range makes construction fail, and every character of every name of
\* the resulting hash_headers is in 33..126.
C4_HeaderCharsChecked ==
    pc = "done" =>
        LET input == Given(kwargs, "hash_headers") IN
        /\ (\E i \in 1..Len(input) : ~InRange(input[i])) => Failed
        /\ Built => \A i \in 1..Len(Read("hash_headers")) :
                        InRange(Read("hash_headers")[i])

\* C4, the part that holds: the check is made on the lower-cased names, so
\* the names of the resulting hash_headers are in range.
C4_ResultInRange ==
    Built => \A i \in 1..Len(Read("hash_headers")) :
                 InRange(Read("hash_headers")[i])

\* C5 as stated: with an export destination set, construction fails with
\* FileExistsError if and only if the resolved path exists and append was
\* not requested.
C5_AsStated ==
    (pc = "done" /\ ExportSet(kwargs)) =>
        (exc.type = "FileExistsError"
            <=> (Resolve(kwargs.export) \in files /\ ~AppendRequested(kwargs)))

\* C5, amended: with an export destination set and the option names,
\* thresholds and header names valid (they are checked first), construction
\* fails with FileExistsError if and only if the resolved path exists and
\* append was not requested, and succeeds otherwise; FileExistsError is
\* raised in no other case, and without an export destination the existence
\* of no path is consulted.
C5_ExportDestination ==
    pc = "done" =>
        /\ exc.type = "FileExistsError" =>
              /\ ExportSet(kwargs)
              /\ Resolve(kwargs.export) \in files
              /\ ~AppendRequested(kwargs)
        /\ (ExportSet(kwargs) /\ AllRecognized(kwargs) /\ ThresholdsValid(kwargs)
              /\ HeadersValid(kwargs)) =>
              IF Resolve(kwargs.export) \in files /\ ~AppendRequested(kwargs)
              THEN exc = Exc("FileExistsError", 170) /\ self = NoInstance
              ELSE Built /\ consulted = {Resolve(kwargs.export)}
        /\ ~ExportSet(kwargs) => consulted = {}

C5_Witness ==
    /\ Built
    /\ DOMAIN kwargs = {"export", "export_append"}
    /\ kwargs.export = "./out"
    /\ kwargs.export_append = TRUE
    /\ "/cwd/out" \in files
    /\ Read("export") = "/cwd/out"

\* C6: after a successful construction every recognized option left out of
\* the mapping reads back as its default, every option passed reads back as
\* passed, hash_headers in normalized form and a set export as the resolved
\* path; built from the empty mapping, hash_headers is the lower-cased
\* default list in its order.
C6_DefaultsAndOverrides ==
    Built =>
        /\ \A k \in RecognizedOptions \ {"hash_headers", "export"} :
              Read(k) = Given(kwargs, k)
        /\ Read("hash_headers") = NormalizedHeaders(Given(kwargs, "hash_headers"))
        /\ "hash_headers" \notin DOMAIN kwargs =>
              Read("hash_headers") = LowerCasedDefaultHeaders
        /\ Read("export") = IF ExportSet(kwargs) THEN Resolve(kwargs.export)
                            ELSE Given(kwargs, "export")

C6_Witness ==
    /\ Built
    /\ DOMAIN kwargs = {"dry_run", "size_threshold"}
    /\ Read("dry_run") = TRUE
    /\ Read("size_threshold") = 0
    /\ Read("content_threshold") = 768
    /\ Read("export_format") = "mbox"
    /\ Read("hash_headers") = LowerCasedDefaultHeaders

\* Attribute read on the Config built before.
PrevRead(k) == GetAttr(heap, prev, k)

\* C10: no construction, successful or failed, changes Config.default_conf;
\* each Config reads back what its own mapping and the defaults give,
\* whatever was built before or after it, and two Configs built from the
\* same mapping read back the same values.
C10_DefaultConfUntouched ==
    /\ heap[DefaultConfRef] = default_conf
    /\ Built =>
          \A k \in RecognizedOptions \ {"hash_headers", "export"} :
              Read(k) = Given(kwargs, k)
    /\ prev # NoInstance =>
          /\ \A k \in RecognizedOptions \ {"hash_headers", "export"} :
                PrevRead(k) = Given(prevKwargs, k)
          /\ PrevRead("hash_headers")
                = NormalizedHeaders(Given(prevKwargs, "hash_headers"))
    /\ (Built /\ prev # NoInstance /\ prevKwargs = kwargs) =>
          \A k \in RecognizedOptions : PrevRead(k) = Read(k)

C10_Witness ==
    /\ Built
    /\ prev # NoInstance
    /\ DOMAIN prevKwargs = {"size_threshold", "hash_headers"}
    /\ DOMAIN kwargs = {"dry_run"}
    /\ PrevRead("size_threshold") = 0
    /\ Read("size_threshold") = 512
    /\ PrevRead("hash_headers") = << <<116, 111>> >>
    /\ Read("hash_headers") = LowerCasedDefaultHeaders
    /\ PrevRead("dry_run") = FALSE

\* What makes the configuration of a run invalid: an unrecognized option,
\* a threshold below -1, or an export destination that exists without
\* append.
ConfigInvalid ==
    \/ ~AllRecognized(kwargs)
    \/ ~ThresholdsValid(kwargs)
    \/ (ExportSet(kwargs) /\ Resolve(kwargs.export) \in files
          /\ ~AppendRequested(kwargs))

\* C7: a run whose configuration is invalid or whose mail source is invalid
\* never leaves Configured except to Aborted, with a non-zero exit status:
\* it never enters Fingerprinting, reads no message and requests no action,
\* and the Config construction of a run with an invalid configuration
\* raises, which is what stops the run.
C7_ErrorsAbortBeforeProcessing ==
    (ConfigInvalid \/ ~sourceOk) =>
        /\ phase \in {"Configured", "Aborted"}
        /\ phase = "Aborted" <=> exitStatus > 0
        /\ phase = "Configured" => exitStatus = -1
        /\ mailbox = <<>> /\ digests = <<>> /\ reports = {}
        /\ groups = <<>> /\ requests = {}
        /\ (pc = "done" /\ sourceOk) => Failed

C7_Witness ==
    /\ phase = "Aborted"
    /\ sourceOk
    /\ exc = Exc("FileExistsError", 170)
    /\ "action" \in DOMAIN kwargs
    /\ exitStatus = 1

\* Number of configured headers message id exposes.
Found(id) ==
    Cardinality({n \in mailbox[id].headers :
                    \E i \in 1..Len(Read("hash_headers")) :
                        Read("hash_headers")[i] = n})

SameGroup(i, j) ==
    \E g \in 1..Len(groups) :
        \E a, b \in 1..Len(groups[g]) : groups[g][a] = i /\ groups[g][b] = j

\* C8: once a run has validated its groups, its size threshold t is >= -1
\* and each pair of same-fingerprint messages is accepted on size if and
\* only if t = -1 or the absolute difference of the sizes is <= t; a
\* rejected pair is reported as SizeDiffAboveThreshold with its delta and is
\* split.
C8_SizeThresholdBoundary ==
    phase \in {"Resolving", "Reported"} =>
        LET t == Read("size_threshold") IN
        /\ t >= -1
        /\ \A i, j \in DOMAIN digests :
              (i < j /\ digests[i] = digests[j]) =>
                  LET d == IF mailbox[i].size >= mailbox[j].size
                           THEN mailbox[i].size - mailbox[j].size
                           ELSE mailbox[j].size - mailbox[i].size
                  IN /\ <<i, j>> \in DOMAIN verdicts
                     /\ verdicts[<<i, j>>] = "ok" <=> (t = -1 \/ d <= t)
                     /\ verdicts[<<i, j>>] # "ok" =>
                           /\ verdicts[<<i, j>>] = "SizeDiffAboveThreshold"
                           /\ [kind |-> "SizeDiffAboveThreshold",
                               ids |-> {i, j}, value |-> d] \in reports
                           /\ ~SameGroup(i, j)
                     /\ (d = t + 1 /\ t >= 0) => ~SameGroup(i, j)
                     /\ (\A a, b \in DOMAIN digests :
                            (digests[a] = digests[i] /\ digests[b] = digests[i])
                               => (t = -1 \/ mailbox[a].size - mailbox[b].size <= t))
                           => SameGroup(i, j)

C8_Witness ==
    /\ phase = "Reported"
    /\ Read("size_threshold") = 0
    /\ Len(mailbox) = 2
    /\ mailbox[1].size = 0
    /\ mailbox[2].size = 1
    /\ DOMAIN digests = {1, 2}
    /\ digests[1] = digests[2]
    /\ DOMAIN verdicts = {<<1, 2>>}
    /\ verdicts[<<1, 2>>] = "SizeDiffAboveThreshold"
    /\ groups = << <<1>>, <<2>> >>

\* C9: a message read by a run yields TooFewHeaders if and only if it
\* exposes fewer than 4 of the configured headers, and a Fingerprint
\* otherwise; with 3 it is always reported, with 4 always fingerprinted; a
\* reported message is a member of no group.
C9_MinimumHeadersBoundary ==
    /\ MINIMAL_HEADERS_COUNT = 4
    /\ \A id \in 1..Len(mailbox) :
          LET report == [kind |-> "TooFewHeaders", ids |-> {id},
                         value |-> Found(id)]
          IN /\ report \in reports <=> Found(id) < 4
             /\ id \in DOMAIN digests <=> Found(id) >= 4
             /\ report \in reports => ~SameGroup(id, id)
             /\ (id \in DOMAIN digests /\ phase \in {"Validating", "Resolving",
                                                     "Reported"})
                   => SameGroup(id, id)

C9_Witness ==
    /\ phase = "Reported"
    /\ Len(mailbox) = 2
    /\ Found(1) = 3
    /\ Found(2) = 4
    /\ Cardinality(mailbox[1].headers) = 4
    /\ [kind |-> "TooFewHeaders", ids |-> {1}, value |-> 3] \in reports
    /\ groups = << <<2>> >>

====
